---- MODULE Spec2Model ----
(***************************************************************************)
(* Account linking and credential lifecycle of the Telegram -> Mastodon    *)
(* bridge (src/src/mastodon.rs): Client::{login, auth_step_1, auth_step_2, *)
(* revoke}, the login_users table behind save/load/delete_login_user, the  *)
(* LoginUser codec (serialize / deserialize) and LoginUser::{domain,       *)
(* post_status}.                                                           *)
(*                                                                         *)
(* Every command handler is an asynchronous task; a task calls the public  *)
(* operations in any order with the values it holds.  An operation that    *)
(* awaits once is one action; auth_step_2 awaits twice (the code exchange, *)
(* then the INSERT) and is two actions, so other tasks can run in between. *)
(***************************************************************************)
EXTENDS Integers, Sequences, FiniteSets, TLC

(* ---------------------------- bounds ----------------------------------- *)
\* Width of the scaled-down UserId integer (u64 in the code).
IdBits == 3
\* Number of distinct access tokens the remote instance may hand out.
MaxTokens == 2
\* Uses of one registration the observer counts up to.
MaxUses == 2

\* Two concurrently running command handlers.
Tasks == {1, 2}

Pow2(n) == IF n = 0 THEN 1 ELSE 2 * 2^(n - 1)

\* teloxide UserId(u64): a small id and the largest id (top bit set).
UserIds == {1, Pow2(IdBits) - 1}

Domains == {"example.social"}

TokenNames == <<"token-a", "token-b", "token-c", "token-d">>
Tokens == {TokenNames[i] : i \in 1..MaxTokens}

AuthCodes == {"goodcode", "expired"}

StatusTexts == {"hello"}

StatusUrls == {"https://example.social/@u/1"}

(* ------------------------ option values -------------------------------- *)
None == <<>>
Some(v) == <<v>>
IsSome(o) == Len(o) = 1
Unwrap(o) == o[1]

(* --------------------------- errors ------------------------------------ *)
\* sqlx::Error::RowNotFound, returned by fetch_one on an empty result.
RowNotFound ==
    [kind |-> "NotFound",
     msg  |-> "no rows returned by a query that expected to return at least one row"]

\* any other sqlx::Error of execute / fetch_one (pool closed, I/O, ...).
DbError ==
    [kind |-> "StorageUnavailable", msg |-> "error communicating with database"]

\* serde_json::Error of json::from_str.
JsonError(msg) == [kind |-> "CorruptData", msg |-> msg]

\* mastodon_async::Error of Registration::build / authorize_url.
RegistrationError(msg) == [kind |-> "RegistrationFailed", msg |-> msg]

\* mastodon_async::Error of Registered::complete.
ExchangeError == [kind |-> "AuthExchangeFailed", msg |-> "invalid_grant"]

\* mastodon_async::Error of StatusBuilder::build / Mastodon::new_status.
PostError(msg) == [kind |-> "PostRejected", msg |-> msg]

\* anyhow!("<context>: {err}"): a new ad-hoc error that keeps only the text.
AnyhowMsg(context, err) ==
    [kind |-> "Adhoc", msg |-> context \o ": " \o err.msg]

Ok(v) == [ok |-> TRUE, val |-> Some(v), err |-> None]
Err(e) == [ok |-> FALSE, val |-> None, err |-> Some(e)]

(* ------------------------ session codec -------------------------------- *)
\* mastodon_async Data: the connection data of a session.
DataFields == <<"base", "client_id", "client_secret", "redirect", "token">>

Data == [base : Domains, client_id : {"client-id"},
         client_secret : {"client-secret"},
         redirect : {"urn:ietf:wg:oauth:2.0:oob"}, token : Tokens]

\* struct LoginUser { inst: Mastodon, tg_user_id: UserId }
LoginUser(data, tg_user_id) ==
    [inst |-> [data |-> data], tg_user_id |-> tg_user_id]

\* A JSON text: syntactically valid or not; when valid, an object given by
\* its members in textual order.
JsonObject(members) == [json |-> TRUE, members |-> members]
NotJson == [json |-> FALSE, members |-> <<>>]

\* Faulty variant: the owner is written into the blob as well.
serialize_with_owner(login_user) ==
    JsonObject([i \in 1..Len(DataFields) |->
                   <<DataFields[i], login_user.inst.data[DataFields[i]]>>]
               \o <<<<"tg_user_id", ToString(login_user.tg_user_id)>>>>)

\* json::to_string(&self.inst.data): the fields of Data in declaration
\* order; tg_user_id is not written.
serialize(login_user) ==
    JsonObject([i \in 1..Len(DataFields) |->
                   <<DataFields[i], login_user.inst.data[DataFields[i]]>>])

\* Positions of the members named `field` in a JSON object.
Members(blob, field) ==
    {i \in 1..Len(blob.members) : blob.members[i][1] = field}

\* Faulty variant: the decoded session is not bound to the id of the call.
deserialize_unbound(input, tg_user_id) ==
    IF ~input.json
    THEN Err(JsonError("expected value at line 1 column 1"))
    ELSE IF \E i \in 1..Len(DataFields) : Members(input, DataFields[i]) = {}
    THEN Err(JsonError("missing field"))
    ELSE IF \E i \in 1..Len(DataFields) :
                Cardinality(Members(input, DataFields[i])) > 1
    THEN Err(JsonError("duplicate field"))
    ELSE Ok(LoginUser(
            [f \in {DataFields[i] : i \in 1..Len(DataFields)} |->
                input.members[CHOOSE i \in Members(input, f) : TRUE][2]],
            0))

\* json::from_str::<Data>(input) followed by data.into(): syntax error,
\* missing field and duplicate field are errors; unknown members are
\* ignored.
deserialize(input, tg_user_id) ==
    IF ~input.json
    THEN Err(JsonError("expected value at line 1 column 1"))
    ELSE IF \E i \in 1..Len(DataFields) : Members(input, DataFields[i]) = {}
    THEN Err(JsonError("missing field"))
    ELSE IF \E i \in 1..Len(DataFields) :
                Cardinality(Members(input, DataFields[i])) > 1
    THEN Err(JsonError("duplicate field"))
    ELSE Ok(LoginUser(
            [f \in {DataFields[i] : i \in 1..Len(DataFields)} |->
                input.members[CHOOSE i \in Members(input, f) : TRUE][2]],
            tg_user_id))

(* ------------------------ credential store ----------------------------- *)
\* Faulty variant: the key is the magnitude of the reinterpreted id.
AsI64_magnitude(n) == IF n >= Pow2(IdBits - 1) THEN Pow2(IdBits) - n ELSE n

\* `tg_user_id.0 as i64`: two's-complement reinterpretation of the id.
AsI64(n) == IF n >= Pow2(IdBits - 1) THEN n - Pow2(IdBits) ELSE n

Keys == {AsI64(id) : id \in UserIds}

Row(key, blob) == [tg_user_id |-> key, mastodon_async_data |-> blob]

RowsOf(tbl, key) == {r \in tbl : r.tg_user_id = key}

\* Faulty variant: an UPDATE, which writes only where a row exists.
UpdateOnly(tbl, key, blob) ==
    IF RowsOf(tbl, key) = {} THEN tbl
    ELSE (tbl \ RowsOf(tbl, key)) \cup {Row(key, blob)}

\* Faulty variant: a plain INSERT into a table without a key constraint.
InsertAppend(tbl, key, blob) == tbl \cup {Row(key, blob)}

\* Faulty variant: INSERT OR IGNORE, which keeps an existing row.
InsertOrIgnore(tbl, key, blob) ==
    IF RowsOf(tbl, key) = {} THEN tbl \cup {Row(key, blob)} ELSE tbl

\* INSERT OR REPLACE INTO login_users (tg_user_id, mastodon_async_data)
InsertOrReplace(tbl, key, blob) ==
    (tbl \ RowsOf(tbl, key)) \cup {Row(key, blob)}

\* Faulty variant: a DELETE whose WHERE clause matches no row.
DeleteNone(tbl, key) == tbl

\* Faulty variant: a soft delete, which leaves a row with an empty blob.
DeleteTombstone(tbl, key) == (tbl \ RowsOf(tbl, key)) \cup {Row(key, NotJson)}

\* DELETE FROM login_users WHERE tg_user_id = ?1
DeleteWhere(tbl, key) == tbl \ RowsOf(tbl, key)

\* SELECT mastodon_async_data ... WHERE tg_user_id = ?1, fetch_one
FetchOne(tbl, key) ==
    IF RowsOf(tbl, key) = {}
    THEN Err(RowNotFound)
    ELSE Ok(CHOOSE r \in RowsOf(tbl, key) : TRUE)

\* Faulty variant: the error of the INSERT is dropped.
save_login_user_swallow(tbl, db_up, tg_user_id, login_user) ==
    IF db_up
    THEN [table |-> InsertOrReplace(tbl, AsI64(tg_user_id),
                                    serialize(login_user)),
          res |-> Ok("unit")]
    ELSE [table |-> tbl, res |-> Ok("unit")]

\* Faulty variant: the row is written although the call reports an error.
save_login_user_partial(tbl, db_up, tg_user_id, login_user) ==
    [table |-> InsertOrReplace(tbl, AsI64(tg_user_id), serialize(login_user)),
     res |-> IF db_up THEN Ok("unit") ELSE Err(DbError)]

\* Client::save_login_user: the table after the call and its result.
save_login_user(tbl, db_up, tg_user_id, login_user) ==
    IF db_up
    THEN [table |-> InsertOrReplace(tbl, AsI64(tg_user_id),
                                    serialize(login_user)),
          res |-> Ok("unit")]
    ELSE [table |-> tbl, res |-> Err(DbError)]

\* Faulty variant: a blob that does not decode is reported as a missing row.
load_login_user_conflate(tbl, db_up, tg_user_id) ==
    IF ~db_up
    THEN Err(DbError)
    ELSE LET record == FetchOne(tbl, AsI64(tg_user_id))
         IN IF ~record.ok
            THEN record
            ELSE IF deserialize(Unwrap(record.val).mastodon_async_data,
                                tg_user_id).ok
            THEN deserialize(Unwrap(record.val).mastodon_async_data,
                             tg_user_id)
            ELSE Err(RowNotFound)

\* Client::load_login_user
load_login_user(tbl, db_up, tg_user_id) ==
    IF ~db_up
    THEN Err(DbError)
    ELSE LET record == FetchOne(tbl, AsI64(tg_user_id))
         IN IF ~record.ok
            THEN record
            ELSE deserialize(Unwrap(record.val).mastodon_async_data,
                             tg_user_id)

\* Faulty variant: deleting an absent row is an error.
delete_login_user_strict(tbl, db_up, tg_user_id) ==
    IF ~db_up
    THEN [table |-> tbl, res |-> Err(DbError)]
    ELSE IF RowsOf(tbl, AsI64(tg_user_id)) = {}
    THEN [table |-> tbl, res |-> Err(RowNotFound)]
    ELSE [table |-> DeleteWhere(tbl, AsI64(tg_user_id)), res |-> Ok("unit")]

\* Client::delete_login_user
delete_login_user(tbl, db_up, tg_user_id) ==
    IF db_up
    THEN [table |-> DeleteWhere(tbl, AsI64(tg_user_id)), res |-> Ok("unit")]
    ELSE [table |-> tbl, res |-> Err(DbError)]

(* ------------------------------ state ---------------------------------- *)
VARIABLES
    table,       \* the rows of login_users
    pc,          \* pc[t]: "idle", or "save" inside auth_step_2
    reg,         \* reg[t]: the Registered the handler holds, if any
    sess,        \* sess[t]: the LoginUser the handler holds, if any
    login_user,  \* login_user[t]: auth_step_2's local between its awaits
    ret,         \* what the most recent call returned, and to which task
    scen,        \* progress of the end-to-end linking scenario (observer)
    last_write,  \* last_write[key]: what the last executed write left (observer)
    router       \* the caller's handling of pending registrations

vars == <<table, pc, reg, sess, login_user, ret, scen, last_write, router>>

\* The most recent call: the calling task, the operation, the user id it
\* was made for (0: none), what the environment answered (the storage or
\* the remote instance), "ok" or the error's kind, the returned text (a
\* URL, a domain, an error message), and for a call on the table the blob
\* its key held before the call, if any; then the number of outbound calls
\* (awaited requests to the storage or to the remote instance) the
\* invocation has issued, and whether the call just before it was another
\* task's successful delete of the row of the same user.
Ret(t, op, id, env, kind, msg, before, calls, raced) ==
    [task |-> t, op |-> op, id |-> id, env |-> env, kind |-> kind,
     msg |-> msg, before |-> before, calls |-> calls, raced |-> raced]

Returned(t, op, id, env, res, text, before, calls, raced) ==
    Ret(t, op, id, env,
        IF res.ok THEN "ok" ELSE Unwrap(res.err).kind,
        IF res.ok THEN text ELSE Unwrap(res.err).msg,
        before, calls, raced)

DbEnv(db_up) == IF db_up THEN "db up" ELSE "db down"

\* The blob stored under `key`, if any.
Stored(tbl, key) ==
    IF RowsOf(tbl, key) = {} THEN None
    ELSE Some((CHOOSE r \in RowsOf(tbl, key) : TRUE).mastodon_async_data)

(* The end-to-end linking scenario, observed.  scen.stage counts how many
   of its calls task scen.task has made, in order and with nothing else in
   between, for user scen.id: login with no row stored (1), auth_step_1
   answered with a registration that has its URL (2), auth_step_2 with an
   accepted code (3: code exchanged, 4: saved), post_status accepted with a
   URL (5), revoke (6), login (7); the storage is reachable throughout.
   Any other call of that task, and any write of another task to the row of
   scen.id, ends the scenario.  The observer reads the calls and their
   inputs only, never their results, and runs only where scen.on is set
   (SpecScenario). *)
NoScenario == [on |-> TRUE, stage |-> 0, task |-> 0, id |-> 0]
Unobserved == [on |-> FALSE, stage |-> 0, task |-> 0, id |-> 0]

Advance(t, call, id, cooperative, writes) ==
    LET starts == call = "login" /\ cooperative
                  /\ Stored(table, AsI64(id)) = None
        started == [on |-> TRUE, stage |-> 1, task |-> t, id |-> id]
        expected == CASE scen.stage = 1 -> call = "auth_step_1"
                      [] scen.stage = 2 -> call = "exchange" /\ id = scen.id
                      [] scen.stage = 3 -> call = "save"
                      [] scen.stage = 4 -> call = "post_status"
                      [] scen.stage = 5 -> call = "revoke"
                      [] scen.stage = 6 -> call = "login" /\ id = scen.id
                      [] OTHER -> FALSE
    IN IF ~scen.on THEN scen
       ELSE IF scen.stage > 0 /\ t = scen.task
       THEN IF expected /\ cooperative
            THEN [scen EXCEPT !.stage = @ + 1]
            ELSE IF starts THEN started ELSE NoScenario
       ELSE IF scen.stage > 0
       THEN IF writes /\ id = scen.id THEN NoScenario ELSE scen
       ELSE IF starts THEN started ELSE scen

\* The observer of writes: the write that executed last on `key` left
\* `blob` there (None: it was a delete).
Written(key, blob) == [last_write EXCEPT ![key] = blob]

\* The observer of races: the call that executed just before this step of
\* task t was another task's revoke for tg_user_id, and its DELETE ran.
AfterDelete(t, tg_user_id) ==
    /\ ret.op = "revoke"
    /\ ret.kind = "ok"
    /\ ret.id = tg_user_id
    /\ ret.task # t

(* The caller of auth_step_1 and auth_step_2.  AnyCaller keeps the
   Registered it got and may pass it to auth_step_2 any number of times,
   for any user: auth_step_2 borrows it.  Router is the command router: it
   takes the pending registration out of its slot when the authorization
   code arrives, so the attempt ends with that call whatever its outcome.
   uses[t] counts the auth_step_2 calls made with the registration that is
   in the slot of task t, and owners[t] collects the users they were made
   for; the router keeps the slots one per user. *)
AnyCaller ==
    [on |-> FALSE, uses |-> [t \in Tasks |-> 0],
     owners |-> [t \in Tasks |-> {}]]
Router ==
    [on |-> TRUE, uses |-> [t \in Tasks |-> 0],
     owners |-> [t \in Tasks |-> {}]]

\* Faulty variant: the router leaves the registration in its slot.
keep_pending(slots, t) == slots

\* The router removes the pending registration of t from its slot.
take_pending(slots, t) == [slots EXCEPT ![t] = None]

\* auth_step_1 handed task t a new registration.
Fresh(t) ==
    IF router.on
    THEN [router EXCEPT !.uses[t] = 0, !.owners[t] = {}]
    ELSE router

\* Task t passed its registration to auth_step_2 for tg_user_id; `slots`
\* are the slots after the call.
Used(slots, t, tg_user_id) ==
    IF ~router.on THEN router
    ELSE IF slots[t] = None
    THEN [router EXCEPT !.uses[t] = 0, !.owners[t] = {}]
    ELSE [router EXCEPT !.uses[t] = IF @ < MaxUses THEN @ + 1 ELSE @,
                        !.owners[t] = @ \cup {tg_user_id}]

TaskInit ==
    /\ pc = [t \in Tasks |-> "idle"]
    /\ reg = [t \in Tasks |-> None]
    /\ sess = [t \in Tasks |-> None]
    /\ login_user = [t \in Tasks |-> None]
    /\ ret = Ret(0, "none", 0, "", "ok", "", None, 0, FALSE)
    /\ scen \in {NoScenario, Unobserved}
    /\ last_write = [key \in Keys |-> Stored(table, key)]
    /\ router \in {AnyCaller, Router}

\* A fresh database: the table exists and is empty.
Init ==
    /\ table = {}
    /\ TaskInit
    /\ ~scen.on
    /\ ~router.on

\* The same, with the scenario observer running.
InitScenario ==
    /\ table = {}
    /\ TaskInit
    /\ scen.on
    /\ ~router.on

\* Blobs that only a hand edit or another version of the program can have
\* left in the table: not JSON, an object without its token, a session
\* object with a member Data does not know.
StoredBlobs ==
    LET members == serialize(LoginUser(CHOOSE d \in Data : TRUE, 0)).members
    IN {NotJson,
        JsonObject(SubSeq(members, 1, Len(members) - 1)),
        JsonObject(members \o <<<<"created_at", "2023">>>>)}

\* An existing database in which one row was stored by hand.
InitStored ==
    /\ \E key \in Keys, blob \in StoredBlobs : table = {Row(key, blob)}
    /\ TaskInit
    /\ ~scen.on
    /\ ~router.on

\* A fresh database, and the command router as the caller.
InitRouter ==
    /\ table = {}
    /\ TaskInit
    /\ ~scen.on
    /\ router.on

(* ---------------------------- operations ------------------------------- *)
\* Faulty variant of login: a row that does not decode is deleted.
login_repair(t, tg_user_id, db_up) ==
    /\ pc[t] = "idle"
    /\ LET r == load_login_user(table, db_up, tg_user_id)
           res == IF r.ok THEN r
                  ELSE Err(AnyhowMsg("failed to query user login data",
                                     Unwrap(r.err)))
       IN /\ sess' = IF res.ok THEN [sess EXCEPT ![t] = res.val] ELSE sess
          /\ ret' = Returned(t, "login", tg_user_id, DbEnv(db_up), res, "",
                             Stored(table, AsI64(tg_user_id)), 1, FALSE)
          /\ table' = IF ~r.ok /\ Unwrap(r.err).kind = "CorruptData"
                      THEN DeleteWhere(table, AsI64(tg_user_id))
                      ELSE table
    /\ scen' = Advance(t, "login", tg_user_id, db_up, FALSE)
    /\ UNCHANGED <<pc, reg, login_user, last_write, router>>

\* Faulty variant of login: a query the storage did not answer is issued a
\* second time.
login_retry(t, tg_user_id, db_up) ==
    /\ pc[t] = "idle"
    /\ LET r == load_login_user(table, db_up, tg_user_id)
           res == IF r.ok THEN r
                  ELSE Err(AnyhowMsg("failed to query user login data",
                                     Unwrap(r.err)))
       IN /\ sess' = IF res.ok THEN [sess EXCEPT ![t] = res.val] ELSE sess
          /\ ret' = Returned(t, "login", tg_user_id, DbEnv(db_up), res, "",
                             Stored(table, AsI64(tg_user_id)),
                             IF db_up THEN 1 ELSE 2, FALSE)
    /\ scen' = Advance(t, "login", tg_user_id, db_up, FALSE)
    /\ UNCHANGED <<table, pc, reg, login_user, last_write, router>>

\* Client::login
login(t, tg_user_id, db_up) ==
    /\ pc[t] = "idle"
    /\ LET r == load_login_user(table, db_up, tg_user_id)
           res == IF r.ok THEN r
                  ELSE Err(AnyhowMsg("failed to query user login data",
                                     Unwrap(r.err)))
       IN /\ sess' = IF res.ok THEN [sess EXCEPT ![t] = res.val] ELSE sess
          /\ ret' = Returned(t, "login", tg_user_id, DbEnv(db_up), res, "",
                             Stored(table, AsI64(tg_user_id)), 1, FALSE)
    /\ scen' = Advance(t, "login", tg_user_id, db_up, FALSE)
    /\ UNCHANGED <<table, pc, reg, login_user, last_write, router>>

\* Responses of the remote instance's client-registration endpoint, as
\* Registration::build sees them.
RegistrationResponses(domain) ==
    {Err(RegistrationError("registration rejected"))}
    \cup {Ok([base |-> domain, client_id |-> "client-id",
              client_secret |-> "client-secret",
              redirect |-> "urn:ietf:wg:oauth:2.0:oob", url |-> u]) :
          u \in {None, Some(domain \o "/oauth/authorize")}}

RegistrationEnv(response) ==
    IF ~response.ok THEN "registration rejected"
    ELSE IF IsSome(Unwrap(response.val).url) THEN "registered"
    ELSE "registered, no url"

\* Registered::authorize_url
authorize_url(registration) ==
    IF IsSome(registration.url)
    THEN Ok(Unwrap(registration.url))
    ELSE Err(RegistrationError("no authorize url"))

\* Faulty variant: the authorization URL is not checked.
auth_step_1_unchecked(response) == response

\* Client::auth_step_1 as a function of the registration response.
auth_step_1_result(response) ==
    IF ~response.ok
    THEN response
    ELSE IF ~authorize_url(Unwrap(response.val)).ok
    THEN Err(Unwrap(authorize_url(Unwrap(response.val)).err))
    ELSE Ok(Unwrap(response.val))

\* Client::auth_step_1
auth_step_1(t, domain, response) ==
    /\ pc[t] = "idle"
    /\ LET r == auth_step_1_result(response)
       IN /\ reg' = IF r.ok THEN [reg EXCEPT ![t] = r.val] ELSE reg
          /\ ret' = Returned(t, "auth_step_1", 0, RegistrationEnv(response),
                             r, "", None, 1, FALSE)
          /\ router' = IF r.ok THEN Fresh(t) ELSE router
    /\ scen' = Advance(t, "auth_step_1", 0,
                       response.ok /\ IsSome(Unwrap(response.val).url), FALSE)
    /\ UNCHANGED <<table, pc, sess, login_user, last_write>>

\* Registered::complete: the token endpoint accepts the code or not; the
\* session's connection data is the registration's plus the token.
complete(registration, auth_code, token) ==
    IF auth_code = "goodcode"
    THEN Ok([base |-> registration.base,
             client_id |-> registration.client_id,
             client_secret |-> registration.client_secret,
             redirect |-> registration.redirect,
             token |-> token])
    ELSE Err(ExchangeError)

\* Faulty variant of auth_step_2: the old row is deleted as soon as the code
\* is accepted, before the new session is saved.
auth_step_2_exchange_unlink(t, tg_user_id, auth_code, token) ==
    /\ pc[t] = "idle"
    /\ IsSome(reg[t])
    /\ LET r == complete(Unwrap(reg[t]), auth_code, token)
       IN /\ login_user' =
                IF r.ok
                THEN [login_user EXCEPT ![t] =
                         Some(LoginUser(Unwrap(r.val), tg_user_id))]
                ELSE login_user
          /\ pc' = IF r.ok THEN [pc EXCEPT ![t] = "save"] ELSE pc
          /\ ret' = Returned(t, IF r.ok THEN "reg.complete" ELSE "auth_step_2",
                             tg_user_id,
                             IF r.ok THEN "code accepted" ELSE "code rejected",
                             r, "", None, 1, FALSE)
          /\ table' = IF r.ok THEN DeleteWhere(table, AsI64(tg_user_id))
                      ELSE table
    /\ reg' = IF router.on THEN take_pending(reg, t) ELSE reg
    /\ router' = Used(reg', t, tg_user_id)
    /\ scen' = Advance(t, "exchange", tg_user_id, auth_code = "goodcode",
                       FALSE)
    /\ UNCHANGED <<sess, last_write>>

\* Client::auth_step_2, up to the await of reg.complete(auth_code).
auth_step_2_exchange(t, tg_user_id, auth_code, token) ==
    /\ pc[t] = "idle"
    /\ IsSome(reg[t])
    /\ LET r == complete(Unwrap(reg[t]), auth_code, token)
       IN /\ login_user' =
                IF r.ok
                THEN [login_user EXCEPT ![t] =
                         Some(LoginUser(Unwrap(r.val), tg_user_id))]
                ELSE login_user
          /\ pc' = IF r.ok THEN [pc EXCEPT ![t] = "save"] ELSE pc
          /\ ret' = Returned(t, IF r.ok THEN "reg.complete" ELSE "auth_step_2",
                             tg_user_id,
                             IF r.ok THEN "code accepted" ELSE "code rejected",
                             r, "", None, 1, FALSE)
    /\ reg' = IF router.on THEN take_pending(reg, t) ELSE reg
    /\ router' = Used(reg', t, tg_user_id)
    /\ scen' = Advance(t, "exchange", tg_user_id, auth_code = "goodcode",
                       FALSE)
    /\ UNCHANGED <<table, sess, last_write>>

\* Client::auth_step_2, from save_login_user to the return.
auth_step_2_save(t, db_up) ==
    /\ pc[t] = "save"
    /\ LET lu == Unwrap(login_user[t])
           s == save_login_user(table, db_up, lu.tg_user_id, lu)
       IN /\ table' = s.table
          /\ sess' = IF s.res.ok THEN [sess EXCEPT ![t] = Some(lu)] ELSE sess
          /\ ret' = Returned(t, "auth_step_2", lu.tg_user_id, DbEnv(db_up),
                       IF s.res.ok THEN s.res
                       ELSE Err(AnyhowMsg("failed to save user login data",
                                          Unwrap(s.res.err))),
                       "", Stored(table, AsI64(lu.tg_user_id)), 2,
                       AfterDelete(t, lu.tg_user_id))
          /\ last_write' = IF db_up
                           THEN Written(AsI64(lu.tg_user_id),
                                        Some(serialize(lu)))
                           ELSE last_write
    /\ pc' = [pc EXCEPT ![t] = "idle"]
    /\ login_user' = [login_user EXCEPT ![t] = None]
    /\ scen' = Advance(t, "save", Unwrap(login_user[t]).tg_user_id, db_up,
                       db_up)
    /\ UNCHANGED <<reg, router>>

\* Faulty variant of revoke: the row is deleted only when it still encodes
\* the session passed in.
revoke_if_current(t, db_up) ==
    /\ pc[t] = "idle"
    /\ IsSome(sess[t])
    /\ LET key == AsI64(Unwrap(sess[t]).tg_user_id)
           current == Stored(table, key) = Some(serialize(Unwrap(sess[t])))
           d == IF current
                THEN delete_login_user(table, db_up, Unwrap(sess[t]).tg_user_id)
                ELSE [table |-> table,
                      res |-> IF db_up THEN Ok("unit") ELSE Err(DbError)]
       IN /\ table' = d.table
          /\ ret' = Returned(t, "revoke", Unwrap(sess[t]).tg_user_id,
                       DbEnv(db_up), d.res, "", Stored(table, key), 1, FALSE)
          /\ last_write' = IF db_up /\ current THEN Written(key, None)
                           ELSE last_write
    /\ scen' = Advance(t, "revoke", Unwrap(sess[t]).tg_user_id, db_up, db_up)
    /\ UNCHANGED <<pc, reg, sess, login_user, router>>

\* Client::revoke
revoke(t, db_up) ==
    /\ pc[t] = "idle"
    /\ IsSome(sess[t])
    /\ LET d == delete_login_user(table, db_up, Unwrap(sess[t]).tg_user_id)
       IN /\ table' = d.table
          /\ ret' = Returned(t, "revoke", Unwrap(sess[t]).tg_user_id,
                       DbEnv(db_up), d.res, "",
                       Stored(table, AsI64(Unwrap(sess[t]).tg_user_id)),
                       1, FALSE)
    /\ last_write' = IF db_up
                     THEN Written(AsI64(Unwrap(sess[t]).tg_user_id), None)
                     ELSE last_write
    /\ scen' = Advance(t, "revoke", Unwrap(sess[t]).tg_user_id, db_up, db_up)
    /\ UNCHANGED <<pc, reg, sess, login_user, router>>

\* LoginUser::domain
domain(user) == user.inst.data.base

\* A handler reads the domain of the session it holds.
call_domain(t) ==
    /\ pc[t] = "idle"
    /\ IsSome(sess[t])
    /\ ret' = Ret(t, "domain", 0, "", "ok", domain(Unwrap(sess[t])), None,
                  0, FALSE)
    /\ scen' = Advance(t, "domain", 0, TRUE, FALSE)
    /\ UNCHANGED <<table, pc, reg, sess, login_user, last_write, router>>

\* Responses of the status-publish endpoint: refused, or a Status whose url
\* is present or absent.
PublishResponses ==
    {Err(PostError("status rejected"))}
    \cup {Ok([url |-> u]) : u \in {None} \cup {Some(x) : x \in StatusUrls}}

PublishEnv(build_ok, response) ==
    IF ~build_ok THEN "not built"
    ELSE IF ~response.ok THEN "rejected"
    ELSE IF IsSome(Unwrap(response.val).url)
    THEN "accepted: " \o Unwrap(Unwrap(response.val).url)
    ELSE "accepted, no url"

\* Faulty variant: a Status without a url is an error.
post_status_strict(build_ok, response) ==
    IF ~build_ok
    THEN Err(PostError("invalid status"))
    ELSE IF ~response.ok
    THEN response
    ELSE IF IsSome(Unwrap(response.val).url)
    THEN Ok(Unwrap(Unwrap(response.val).url))
    ELSE Err(PostError("no url"))

\* LoginUser::post_status as a function of StatusBuilder::build's outcome
\* and of the publish response.
post_status_result(build_ok, response) ==
    IF ~build_ok
    THEN Err(PostError("invalid status"))
    ELSE IF ~response.ok
    THEN response
    ELSE LET posted == Unwrap(response.val)
         IN Ok(IF IsSome(posted.url) THEN Unwrap(posted.url)
               ELSE "*invisible*")

\* Faulty variant of post_status: a refused status unlinks the account.
post_status_unlink(t, text, build_ok, response) ==
    /\ pc[t] = "idle"
    /\ IsSome(sess[t])
    /\ LET r == post_status_result(build_ok, response)
       IN /\ ret' = Returned(t, "post_status", 0,
                             PublishEnv(build_ok, response),
                             r, IF r.ok THEN Unwrap(r.val) ELSE "", None,
                             IF build_ok THEN 1 ELSE 0, FALSE)
          /\ table' = IF r.ok THEN table
                      ELSE DeleteWhere(table, AsI64(Unwrap(sess[t]).tg_user_id))
    /\ scen' = Advance(t, "post_status", 0,
                       build_ok /\ response.ok
                       /\ IsSome(Unwrap(response.val).url), FALSE)
    /\ UNCHANGED <<pc, reg, sess, login_user, last_write, router>>

\* LoginUser::post_status
post_status(t, text, build_ok, response) ==
    /\ pc[t] = "idle"
    /\ IsSome(sess[t])
    /\ LET r == post_status_result(build_ok, response)
       IN ret' = Returned(t, "post_status", 0, PublishEnv(build_ok, response),
                          r, IF r.ok THEN Unwrap(r.val) ELSE "", None,
                          IF build_ok THEN 1 ELSE 0, FALSE)
    /\ scen' = Advance(t, "post_status", 0,
                       build_ok /\ response.ok
                       /\ IsSome(Unwrap(response.val).url), FALSE)
    /\ UNCHANGED <<table, pc, reg, sess, login_user, last_write, router>>

Next ==
    \E t \in Tasks :
        \/ \E id \in UserIds, db_up \in BOOLEAN : login(t, id, db_up)
        \/ \E d \in Domains : \E response \in RegistrationResponses(d) :
              auth_step_1(t, d, response)
        \/ \E id \in UserIds, code \in AuthCodes, token \in Tokens :
              auth_step_2_exchange(t, id, code, token)
        \/ \E db_up \in BOOLEAN : auth_step_2_save(t, db_up)
        \/ \E db_up \in BOOLEAN : revoke(t, db_up)
        \/ call_domain(t)
        \/ \E text \in StatusTexts, build_ok \in BOOLEAN :
              \E response \in PublishResponses :
                  post_status(t, text, build_ok, response)

Spec == Init /\ [][Next]_vars

SpecStored == InitStored /\ [][Next]_vars

SpecScenario == InitScenario /\ [][Next]_vars

SpecRouter == InitRouter /\ [][Next]_vars

(* ------------------------------ claims --------------------------------- *)
\* How login's caller can classify a failure: by the text of the error.
LoginErrorText(e) == AnyhowMsg("failed to query user login data", e).msg

JsonErrorTexts ==
    {"expected value at line 1 column 1", "missing field", "duplicate field"}

IsNotFound(r) == r.kind # "ok" /\ r.msg = LoginErrorText(RowNotFound)
IsCorruptData(r) ==
    r.kind # "ok" /\ r.msg \in {LoginErrorText(JsonError(m)) : m \in JsonErrorTexts}
IsStorageUnavailable(r) == r.kind # "ok" /\ r.msg = LoginErrorText(DbError)

\* The session task t holds.
Held(t) == Unwrap(sess[t])

\* C1 (insert-or-replace): when auth_step_2's save of session s2 for id has
\* just succeeded, the table holds exactly one row for id, a load of id
\* returns s2 - also when the row held another session s1 before, which is
\* then not returned - and a save that fails fails on the storage being
\* unreachable, never on the row existing.
C1_InsertOrReplace ==
    ret.op = "auth_step_2" =>
        IF ret.kind = "ok"
        THEN LET s2 == Held(ret.task)
             IN /\ s2.tg_user_id = ret.id
                /\ Cardinality(RowsOf(table, AsI64(ret.id))) = 1
                /\ load_login_user(table, TRUE, ret.id) = Ok(s2)
                /\ IsSome(ret.before) /\ Unwrap(ret.before) # serialize(s2)
                   => load_login_user(table, TRUE, ret.id)
                        # deserialize(Unwrap(ret.before), ret.id)
        ELSE ret.env \in {"code rejected", "db down"}

\* A save has replaced the row of another session.
C1_Witness ==
    /\ ret.op = "auth_step_2" /\ ret.kind = "ok"
    /\ IsSome(ret.before)
    /\ Unwrap(ret.before) # serialize(Held(ret.task))
    /\ deserialize(Unwrap(ret.before), ret.id).ok

\* C2 (idempotent unlink): with the storage reachable revoke's delete
\* succeeds whether the row is present or absent (so also the second of two
\* deletes in a row), and after it a load of that id fails with NotFound.
C2_IdempotentUnlink ==
    ret.op = "revoke" =>
        /\ ret.env = "db up" <=> ret.kind = "ok"
        /\ ret.kind = "ok" =>
              /\ Stored(table, AsI64(ret.id)) = None
              /\ load_login_user(table, TRUE, ret.id) = Err(RowNotFound)

\* A delete of an absent row has succeeded.
C2_Witness ==
    ret.op = "revoke" /\ ret.kind = "ok" /\ ret.before = None

\* C3 (end-to-end linking): each call of the observed scenario returns what
\* the scenario says: login NotFound; auth_step_1 a registration with an
\* authorization URL; auth_step_2 a session that is stored for the user and
\* whose domain is the registration's; post_status the URL; revoke success;
\* login NotFound again.
C3_EndToEnd ==
    scen.stage > 0 /\ ret.task = scen.task =>
        LET t == scen.task
        IN CASE scen.stage = 1 -> ret.op = "login" /\ IsNotFound(ret)
             [] scen.stage = 2 ->
                   /\ ret.op = "auth_step_1" /\ ret.kind = "ok"
                   /\ IsSome(reg[t])
                   /\ authorize_url(Unwrap(reg[t])).ok
                   /\ Unwrap(authorize_url(Unwrap(reg[t])).val) # ""
             [] scen.stage = 3 -> pc[t] = "save"
             [] scen.stage = 4 ->
                   /\ ret.op = "auth_step_2" /\ ret.kind = "ok"
                   /\ IsSome(sess[t])
                   /\ Held(t).tg_user_id = scen.id
                   /\ domain(Held(t)) = Unwrap(reg[t]).base
                   /\ load_login_user(table, TRUE, scen.id) = Ok(Held(t))
             [] scen.stage = 5 ->
                   /\ ret.op = "post_status" /\ ret.kind = "ok"
                   /\ ret.msg \in StatusUrls
             [] scen.stage = 6 -> ret.op = "revoke" /\ ret.kind = "ok"
             [] scen.stage = 7 -> ret.op = "login" /\ IsNotFound(ret)
             [] OTHER -> FALSE

\* The scenario has run to its end.
C3_Witness == scen.stage = 7 /\ ret.task = scen.task

\* C4 (persist before return): a step in which auth_step_2 returns a
\* session is the step of its save: the row of the owner's key, and no
\* other row, is written in it, and the row decodes to the session returned.
C4_PersistedBeforeReturn ==
    [][\A t \in Tasks :
          (pc[t] = "save" /\ pc'[t] = "idle" /\ ret'.kind = "ok") =>
              LET lu == Unwrap(login_user[t])
                  key == AsI64(lu.tg_user_id)
              IN /\ sess'[t] = Some(lu)
                 /\ RowsOf(table', key) = {Row(key, serialize(lu))}
                 /\ deserialize(Unwrap(Stored(table', key)), lu.tg_user_id)
                      = Ok(lu)
                 /\ \A k \in Keys \ {key} : RowsOf(table', k) = RowsOf(table, k)
      ]_vars

\* auth_step_2 has returned a session for a user who had no row.
C4_Witness ==
    /\ ret.op = "auth_step_2" /\ ret.kind = "ok" /\ ret.before = None
    /\ Stored(table, AsI64(ret.id)) = Some(serialize(Held(ret.task)))

\* C5 (no partial state): a step in which auth_step_1 or auth_step_2
\* returns an error leaves the table, the sessions held and the
\* registrations held as they were.
C5_NoPartialState ==
    [][(ret'.op \in {"auth_step_1", "auth_step_2"} /\ ret'.kind # "ok") =>
          /\ table' = table
          /\ sess' = sess
          /\ reg' = reg
      ]_vars

\* auth_step_2 has failed on its save, for a user who has a row.
C5_Witness ==
    /\ ret.op = "auth_step_2" /\ ret.env = "db down"
    /\ ret.kind # "ok" /\ IsSome(ret.before)
    /\ Stored(table, AsI64(ret.id)) = ret.before

\* C6 (missing-URL fail-fast): a registration response without the
\* authorization URL makes auth_step_1 fail with RegistrationFailed, and
\* every registration a handler holds has its URL.
C6_MissingUrlFailFast ==
    /\ (ret.op = "auth_step_1" /\ ret.env = "registered, no url")
          => ret.kind = "RegistrationFailed"
    /\ \A t \in Tasks : IsSome(reg[t]) => authorize_url(Unwrap(reg[t])).ok

\* auth_step_1 has met a response without the URL.
C6_Witness ==
    /\ ret.op = "auth_step_1" /\ ret.env = "registered, no url"
    /\ reg[ret.task] = None

\* What the table says about the id of the last login.
LoginRow == Stored(table, AsI64(ret.id))
LoginRowDecodes == IsSome(LoginRow) /\ deserialize(Unwrap(LoginRow), ret.id).ok

\* C7 as stated (classification by the table alone): login fails with
\* NotFound exactly when there is no row, with CorruptData exactly when the
\* row does not decode, and succeeds otherwise.
C7_ClassifiedByTableAlone ==
    ret.op = "login" =>
        /\ IsNotFound(ret) <=> LoginRow = None
        /\ IsCorruptData(ret) <=> (IsSome(LoginRow) /\ ~LoginRowDecodes)
        /\ ret.kind = "ok" <=> LoginRowDecodes

\* C7 (classification of login outcomes), amended: when the query itself
\* completes, login fails with NotFound exactly when there is no row, with
\* CorruptData exactly when the row does not decode, and succeeds
\* otherwise, returning the decoded row; when the storage is unreachable it
\* fails with StorageUnavailable whatever the table holds; the caller can
\* tell the three failures apart by their text.
C7_Classification ==
    ret.op = "login" =>
        /\ IF ret.env = "db up"
           THEN /\ IsNotFound(ret) <=> LoginRow = None
                /\ IsCorruptData(ret) <=> (IsSome(LoginRow) /\ ~LoginRowDecodes)
                /\ ret.kind = "ok" <=> LoginRowDecodes
                /\ ret.kind = "ok" =>
                      Ok(Held(ret.task)) = deserialize(Unwrap(LoginRow), ret.id)
                /\ ~IsStorageUnavailable(ret)
           ELSE IsStorageUnavailable(ret)
        /\ ret.kind # "ok" =>
              Cardinality({c \in {"n", "c", "s"} :
                  \/ c = "n" /\ IsNotFound(ret)
                  \/ c = "c" /\ IsCorruptData(ret)
                  \/ c = "s" /\ IsStorageUnavailable(ret)}) = 1

\* login has met a row that does not decode.
C7_Witness ==
    ret.op = "login" /\ IsCorruptData(ret) /\ IsSome(LoginRow)

\* C8 (corrupt blob is kept): a login for an id whose row does not decode
\* fails - with CorruptData when the row was read - and leaves the row as
\* it was, so that a further load of that id fails with CorruptData again.
C8_CorruptRowKept ==
    (/\ ret.op = "login"
     /\ IsSome(ret.before)
     /\ ~deserialize(Unwrap(ret.before), ret.id).ok) =>
        /\ LoginRow = ret.before
        /\ ret.kind # "ok"
        /\ ret.env = "db up" => IsCorruptData(ret)
        /\ ~load_login_user(table, TRUE, ret.id).ok
        /\ Unwrap(load_login_user(table, TRUE, ret.id).err).kind
              = "CorruptData"

\* login has failed on a row that does not decode, and the row is there.
C8_Witness ==
    /\ ret.op = "login" /\ ret.env = "db up" /\ IsCorruptData(ret)
    /\ IsSome(ret.before) /\ ~Unwrap(ret.before).json
    /\ LoginRow = ret.before

\* The sessions the handlers hold or are saving.
LiveSessions ==
    {Held(t) : t \in {u \in Tasks : IsSome(sess[u])}}
    \cup {Unwrap(login_user[t]) : t \in {u \in Tasks : IsSome(login_user[u])}}

\* C9 (codec round trip): for every live session s and every id, decoding
\* the encoding of s for id succeeds and gives the connection data of s
\* with owner id, and the encoding of s is that of the same connection data
\* under any other owner.
C9_RoundTrip ==
    \A s \in LiveSessions : \A id \in UserIds :
        /\ deserialize(serialize(s), id).ok
        /\ Unwrap(deserialize(serialize(s), id).val).inst.data = s.inst.data
        /\ Unwrap(deserialize(serialize(s), id).val).tg_user_id = id
        /\ serialize(LoginUser(s.inst.data, id)) = serialize(s)

\* A session saved by one handler has been loaded by login.
C9_Witness ==
    /\ ret.op = "login" /\ ret.kind = "ok"
    /\ Stored(table, AsI64(ret.id)) = Some(serialize(Held(ret.task)))
    /\ \E t \in Tasks \ {ret.task} :
          IsSome(sess[t]) /\ Held(t).inst.data = Held(ret.task).inst.data

\* C10 (invisible-post fallback): an accepted status returns the URL of
\* the response when it has one and "*invisible*" when it has none, and
\* post_status fails only when the status was not built or was refused.
C10_InvisibleFallback ==
    ret.op = "post_status" =>
        /\ ret.env \in {"accepted: " \o u : u \in StatusUrls}
              => ret.kind = "ok" /\ ret.env = "accepted: " \o ret.msg
        /\ ret.env = "accepted, no url"
              => ret.kind = "ok" /\ ret.msg = "*invisible*"
        /\ ret.kind # "ok" <=> ret.env \in {"not built", "rejected"}
        /\ ret.kind # "ok" => ret.kind = "PostRejected"

\* A status without a URL has been posted.
C10_Witness ==
    ret.op = "post_status" /\ ret.env = "accepted, no url" /\ ret.kind = "ok"

\* C11 (a rejected post does not unlink): a step of post_status, whether the
\* status is published, refused or not built, leaves every row of the
\* table and the sessions held as they were, so a load of the owner of the
\* posting session returns after it what it returned before it.
C11_PostKeepsStore ==
    [][ret'.op = "post_status" =>
          /\ table' = table
          /\ sess' = sess
          /\ LET owner == Unwrap(sess[ret'.task]).tg_user_id
             IN load_login_user(table', TRUE, owner)
                  = load_login_user(table, TRUE, owner)
      ]_vars

\* A status of a linked user has been refused: the user's row is there and
\* loads as the session that posted.
C11_Witness ==
    /\ ret.op = "post_status" /\ ret.kind = "PostRejected"
    /\ ret.env = "rejected"
    /\ load_login_user(table, TRUE, Held(ret.task).tg_user_id)
         = Ok(Held(ret.task))

\* C12 (per-user independence): a step of an operation made for user a
\* (login, auth_step_2 up to its exchange or through its save, revoke), a
\* success or a failure, leaves the row of every other user b as it was,
\* present or absent, and a load of b returns after it what it returned
\* before it; a step of an operation made for no user (auth_step_1,
\* domain, post_status) does so for every user.
C12_PerUserIndependence ==
    [][\/ table' = table
       \/ \A b \in UserIds \ {ret'.id} :
             /\ RowsOf(table', AsI64(b)) = RowsOf(table, AsI64(b))
             /\ load_login_user(table', TRUE, b)
                  = load_login_user(table, TRUE, b)
      ]_vars

\* A write for one user has changed that user's row while another user
\* has a row.
C12_Witness ==
    /\ ret.op \in {"auth_step_2", "revoke"} /\ ret.kind = "ok"
    /\ ret.before # Stored(table, AsI64(ret.id))
    /\ \E b \in UserIds \ {ret.id} : IsSome(Stored(table, AsI64(b)))

\* The sessions auth_step_2 can save for id, encoded.
Encodings(id) == {serialize(LoginUser(d, id)) : d \in Data}

\* C13 (last writer wins): with auth_step_2 and revoke of several tasks
\* interleaved on one id and no lock, in every reachable state the table
\* holds for id no row or exactly one row, whose blob is the whole encoding
\* of a session of one auth_step_2 call; what it holds is what the write
\* that executed last on the key left (the saved blob, or nothing after a
\* delete), so also when every task has finished; and a load of id is
\* NotFound or a whole session, never a part or a mix of two.
C13_LastWriterWins ==
    \A id \in UserIds :
        LET key == AsI64(id)
        IN /\ Cardinality(RowsOf(table, key)) <= 1
           /\ \A r \in RowsOf(table, key) :
                 r.mastodon_async_data \in Encodings(id)
           /\ Stored(table, key) = last_write[key]
           /\ load_login_user(table, TRUE, id)
                 \in {Err(RowNotFound)} \cup {Ok(LoginUser(d, id)) : d \in Data}

\* Two auth_step_2 calls for one user overlapped: one has saved its session
\* over a row, the other, with another session, is between its exchange
\* and its save.
C13_Witness ==
    /\ ret.op = "auth_step_2" /\ ret.kind = "ok" /\ IsSome(ret.before)
    /\ Stored(table, AsI64(ret.id)) = Some(serialize(Held(ret.task)))
    /\ \E u \in Tasks \ {ret.task} :
          /\ pc[u] = "save"
          /\ Unwrap(login_user[u]).tg_user_id = ret.id
          /\ Unwrap(login_user[u]) # Held(ret.task)

\* What the storage or the remote instance answers when a call fails.
FailedCalls == {"db down", "registration rejected", "code rejected", "rejected"}

\* C14 as stated (one outbound call per invocation): every invocation of
\* login, auth_step_1, auth_step_2, revoke and post_status that has
\* returned issued exactly one outbound call.
C14_SingleCall ==
    ret.op \in {"login", "auth_step_1", "auth_step_2", "revoke", "post_status"}
        => ret.calls = 1

\* C14 (outbound calls, amended): login, auth_step_1 and revoke issue
\* exactly one outbound call per invocation and post_status at most one
\* (none when the status is not built); auth_step_2 issues the code
\* exchange and then, only when the code was accepted, the save, so two
\* calls when it gets that far and one when the exchange fails.  No call is
\* issued a second time, and a call that fails ends its invocation at
\* once, with an error.
C14_CallsPerInvocation ==
    /\ ret.op \in {"login", "auth_step_1", "revoke", "reg.complete"}
          => ret.calls = 1
    /\ ret.op = "post_status"
          => ret.calls = IF ret.env = "not built" THEN 0 ELSE 1
    /\ ret.op = "auth_step_2"
          => ret.calls = IF ret.env = "code rejected" THEN 1 ELSE 2
    /\ ret.env \in FailedCalls => ret.kind # "ok" /\ pc[ret.task] = "idle"
    /\ \A t \in Tasks :
          pc[t] = "save" =>
              /\ IsSome(login_user[t])
              /\ ret.task = t => ret.op = "reg.complete" /\ ret.kind = "ok"

\* auth_step_2 has returned a session: it issued the exchange and the save.
C14_Witness ==
    /\ ret.op = "auth_step_2" /\ ret.kind = "ok" /\ ret.env = "db up"
    /\ ret.calls = 2
    /\ Stored(table, AsI64(ret.id)) = Some(serialize(Held(ret.task)))

\* C15 (a pending registration serves one round trip): with the command
\* router as the caller, the registration in a slot has been passed to
\* auth_step_2 at most once and for at most one user, and the call that
\* passes it empties the slot, so no second call can be made with it.
C15_SingleUse ==
    /\ \A t \in Tasks :
          /\ router.uses[t] <= 1
          /\ Cardinality(router.owners[t]) <= 1
          /\ pc[t] = "save" => reg[t] = None
    /\ ret.op \in {"reg.complete", "auth_step_2"} => reg[ret.task] = None

\* A registration has been passed to auth_step_2, which saved a session,
\* and its slot is empty; the other task holds a registration of its own.
C15_Witness ==
    /\ router.on
    /\ ret.op = "auth_step_2" /\ ret.kind = "ok"
    /\ reg[ret.task] = None
    /\ \E u \in Tasks \ {ret.task} : IsSome(reg[u])

\* C16 (linking order): a row for id comes into existence only in the step
\* in which an auth_step_2 for id, holding a registration from auth_step_1
\* and past its code exchange, executes its save and returns the session;
\* login, auth_step_1, revoke, post_status and domain never create one.  So
\* wherever a row for id exists, the write that executed last on its key
\* was a save of auth_step_2, with no delete after it.
C16_LinkOrdering ==
    [][\A id \in UserIds :
          LET key == AsI64(id)
          IN /\ (Stored(table, key) = None /\ IsSome(Stored(table', key))) =>
                   \E t \in Tasks :
                       /\ pc[t] = "save" /\ pc'[t] = "idle"
                       /\ IsSome(reg[t])
                       /\ Unwrap(login_user[t]).tg_user_id = id
                       /\ ret'.op = "auth_step_2" /\ ret'.kind = "ok"
                       /\ ret'.task = t /\ ret'.id = id
                       /\ sess'[t] = login_user[t]
                       /\ Stored(table', key)
                            = Some(serialize(Unwrap(login_user[t])))
             /\ IsSome(Stored(table', key)) =>
                   /\ IsSome(last_write'[key])
                   /\ Unwrap(last_write'[key]) \in Encodings(id)
      ]_vars

\* A user was linked, unlinked and linked again: the save of auth_step_2 has
\* created the row anew, and a task holds the session of the earlier link.
C16_Witness ==
    /\ ret.op = "auth_step_2" /\ ret.kind = "ok" /\ ret.before = None
    /\ IsSome(Stored(table, AsI64(ret.id)))
    /\ \E u \in Tasks \ {ret.task} :
          /\ IsSome(sess[u])
          /\ Held(u).tg_user_id = ret.id
          /\ Held(u) # Held(ret.task)

\* C17 (relinking keeps the old link): a step of auth_step_1, failed or
\* not, a step of auth_step_2 up to its accepted code exchange, and a step
\* in which auth_step_2 fails, on the code or on the save, leave the table
\* and the sessions held as they were, so a load of a linked user still
\* reads the row of the old session;
\* and the row of a linked user is replaced by another only in the step in
\* which an auth_step_2 for that user executes its save, by the encoding
\* of the session it returns.
C17_RelinkKeepsOld ==
    [][/\ (\/ ret'.op \in {"auth_step_1", "reg.complete"}
           \/ ret'.op = "auth_step_2" /\ ret'.kind # "ok") =>
              /\ table' = table
              /\ sess' = sess
       /\ \/ table' = table
          \/ \A id \in UserIds :
                LET key == AsI64(id)
                IN (/\ IsSome(Stored(table, key))
                    /\ IsSome(Stored(table', key))
                    /\ Stored(table', key) # Stored(table, key)) =>
                       /\ ret'.op = "auth_step_2" /\ ret'.kind = "ok"
                       /\ ret'.id = id
                       /\ Stored(table', key)
                            = Some(serialize(Unwrap(sess'[ret'.task])))
                       /\ load_login_user(table', TRUE, id)
                            = Ok(Unwrap(sess'[ret'.task]))
      ]_vars

\* A linked user is relinking: the code of the new attempt has been
\* accepted, its session is not saved yet, and the row still loads as the
\* session of the old link, which another handler holds.
C17_Witness ==
    /\ ret.op = "reg.complete" /\ pc[ret.task] = "save"
    /\ Unwrap(login_user[ret.task]).tg_user_id = ret.id
    /\ \E u \in Tasks \ {ret.task} :
          /\ IsSome(sess[u])
          /\ load_login_user(table, TRUE, ret.id) = Ok(Held(u))
          /\ Held(u) # Unwrap(login_user[ret.task])

\* C18 (revoke is keyed by the owner): a revoke that returns success has
\* issued one call, to the storage and none to the remote instance, and
\* leaves no row for the owner of the session passed in, whatever the row
\* encoded, the session passed in or a newer one saved since; a load of
\* the owner is then NotFound.  A revoke that fails leaves the row as it was.
C18_RevokeByOwner ==
    ret.op = "revoke" =>
        LET key == AsI64(Held(ret.task).tg_user_id)
        IN /\ ret.id = Held(ret.task).tg_user_id
           /\ ret.calls = 1
           /\ ret.env \in {DbEnv(TRUE), DbEnv(FALSE)}
           /\ ret.kind = "ok" <=> ret.env = DbEnv(TRUE)
           /\ ret.kind = "ok" =>
                 /\ RowsOf(table, key) = {}
                 /\ load_login_user(table, TRUE, ret.id) = Err(RowNotFound)
           /\ ret.kind # "ok" => Stored(table, key) = ret.before

\* revoke was called with an old session after another handler had saved
\* a newer one for the same user: the newer row is gone.
C18_Witness ==
    /\ ret.op = "revoke" /\ ret.kind = "ok"
    /\ IsSome(ret.before)
    /\ ret.before # Some(serialize(Held(ret.task)))
    /\ \E u \in Tasks \ {ret.task} :
          /\ IsSome(sess[u])
          /\ Held(u).tg_user_id = ret.id
          /\ ret.before = Some(serialize(Held(u)))
    /\ Stored(table, AsI64(ret.id)) = None

\* C19 (owner binding): the session a successful login(id) hands to its
\* caller has owner id; the session auth_step_2 builds for owner_id at its
\* code exchange, and returns after its save, has owner owner_id; and a
\* revoke with a session so obtained is a revoke for that id: it removes
\* rows of that id and the row of no other user.
C19_OwnerBinding ==
    [][/\ (ret'.op = "login" /\ ret'.kind = "ok") =>
              /\ Unwrap(sess'[ret'.task]).tg_user_id = ret'.id
              /\ Unwrap(sess'[ret'.task]) \in
                    {LoginUser(d, ret'.id) : d \in Data}
       /\ ret'.op = "reg.complete" =>
              Unwrap(login_user'[ret'.task]).tg_user_id = ret'.id
       /\ (ret'.op = "auth_step_2" /\ ret'.kind = "ok") =>
              /\ sess'[ret'.task] = login_user[ret'.task]
              /\ Unwrap(sess'[ret'.task]).tg_user_id = ret'.id
       /\ ret'.op = "revoke" =>
              LET owner == Unwrap(sess[ret'.task]).tg_user_id
              IN /\ owner = ret'.id
                 /\ owner \in UserIds
                 /\ table' \subseteq table
                 /\ \A r \in table \ table' : r.tg_user_id = AsI64(owner)
                 /\ \A b \in UserIds \ {owner} :
                       RowsOf(table', AsI64(b)) = RowsOf(table, AsI64(b))
      ]_vars

\* The session of a linked user has been passed to revoke: the row of that
\* user is gone and the row of the other user is there.
C19_Witness ==
    /\ ret.op = "revoke" /\ ret.kind = "ok" /\ IsSome(ret.before)
    /\ ret.before = Some(serialize(Held(ret.task)))
    /\ Held(ret.task).tg_user_id = ret.id
    /\ Stored(table, AsI64(ret.id)) = None
    /\ \E b \in UserIds \ {ret.id} : IsSome(Stored(table, AsI64(b)))

\* C20 (unlink overtaken by an in-flight link): when another task's revoke
\* for id has executed, and returned success, between the code exchange
\* and the save of an auth_step_2 for id, as the call just before the
\* save, the save finds no row and, the storage answering, writes one in
\* the second of its two calls: auth_step_2 returns its session, the row
\* of id exists and a load of id returns that session, although the unlink
\* came after the exchange.  So a load of id is not NotFound after an unlink
\* that ran while an auth_step_2 for id had its save pending.
C20_UnlinkOvertaken ==
    (ret.op = "auth_step_2" /\ ret.raced) =>
        /\ ret.before = None
        /\ ret.calls = 2
        /\ ret.kind = "ok" <=> ret.env = DbEnv(TRUE)
        /\ ret.kind = "ok" =>
              /\ Stored(table, AsI64(ret.id)) = Some(serialize(Held(ret.task)))
              /\ load_login_user(table, TRUE, ret.id) = Ok(Held(ret.task))

\* A handler unlinked the user, holding the session of the old link, while
\* another was between its exchange and its save: both have returned
\* success and the user is linked, with the new session.
C20_Witness ==
    /\ ret.op = "auth_step_2" /\ ret.raced /\ ret.kind = "ok"
    /\ \A t \in Tasks : pc[t] = "idle"
    /\ \E u \in Tasks \ {ret.task} :
          IsSome(sess[u]) /\ Held(u).tg_user_id = ret.id
    /\ load_login_user(table, TRUE, ret.id) = Ok(Held(ret.task))

====
